---- MODULE Spec2Model ----
(***************************************************************************)
(* The schema-driven settings engine of toad (src/toad/settings.py, with   *)
(* the shipped schema of src/toad/settings_schema.py).                     *)
(*                                                                         *)
(* Representation.                                                         *)
(*   - A Python str is a sequence of one-character strings, so that        *)
(*     str.split("."), f"{name}.{key}" and os.path.expandvars are computed *)
(*     character by character.                                             *)
(*   - A Python value is a record [ty, b, n, s, d]: ty is the name of its  *)
(*     class and exactly one of b (bool), n (int), s (str), d (dict) holds *)
(*     its payload.  A dict is a function from str keys to values; the     *)
(*     insertion order of a values tree is not modelled (no code reads it).*)
(*   - An insertion-ordered dict whose order is read (settings_map,        *)
(*     Setting.children) is a sequence of entries [k, v].                  *)
(*   - A schema descriptor keeps the entries the engine's control flow     *)
(*     reads: key, type, default, fields.  title, help and validate are    *)
(*     copied through by build_settings and read by nothing modelled here. *)
(***************************************************************************)
EXTENDS Integers, Sequences, FiniteSets, TLC

VARIABLES
    schema,     \* Schema.schema: the Schema Definition (never reassigned)
    cache,      \* the instance __dict__ slots filled by @cached_property
    runs,       \* how many times each cached property's body has run
    nextId,     \* identity of the next object a property body creates
    first,      \* identity of the object each property returned first (0: none)
    settings,   \* the values tree at hand (Settings._settings)
    source,     \* where the values tree came from: "external" or "defaults"
    writes,     \* set_value calls made on the values tree at hand
    environ,    \* os.environ: a function from the names that are set
    result      \* what the latest operation was given and how it ended

vars == <<schema, cache, runs, nextId, first, settings, source, writes, environ, result>>

(***************************************************************************)
(* Strings                                                                 *)
(***************************************************************************)
s_empty == << >>
s_ui == <<"u", "i">>
s_column == <<"c", "o", "l", "u", "m", "n">>
s_column_width == <<"c", "o", "l", "u", "m", "n", "-", "w", "i", "d", "t", "h">>
s_theme == <<"t", "h", "e", "m", "e">>
s_dracula == <<"d", "r", "a", "c", "u", "l", "a">>
s_user == <<"u", "s", "e", "r">>
s_name == <<"n", "a", "m", "e">>
s_email == <<"e", "m", "a", "i", "l">>
s_accounts == <<"a", "c", "c", "o", "u", "n", "t", "s">>
s_anthropic == <<"a", "n", "t", "h", "r", "o", "p", "i", "c">>
s_apikey == <<"a", "p", "i", "k", "e", "y">>
s_openai == <<"o", "p", "e", "n", "a", "i">>
s_dollar_USER == <<"$", "U", "S", "E", "R">>
s_dollar_ANTHROPIC == <<"$", "A", "N", "T", "H", "R", "O", "P", "I", "C", "_", "A", "P", "I", "_", "K", "E", "Y">>
s_dollar_OPENAI == <<"$", "O", "P", "E", "N", "A", "I", "_", "A", "P", "I", "_", "K", "E", "Y">>
s_USER == <<"U", "S", "E", "R">>
s_alice == <<"a", "l", "i", "c", "e">>
s_bob == <<"b", "o", "b">>
s_brace_USER == <<"$", "{", "U", "S", "E", "R", "}">>
s_dollar_USERS == <<"$", "U", "S", "E", "R", "S">>
s_wide == <<"w", "i", "d", "e">>
s_nosuch == <<"n", "o", "s", "u", "c", "h">>
s_g == <<"g">>
s_h == <<"h">>
s_x == <<"x">>
s_y == <<"y">>
s_dot == <<".">>

\* The characters matched by \w under re.ASCII.
WordChars == {"a", "b", "c", "d", "e", "f", "g", "h", "i", "j", "k", "l", "m", "n", "o", "p", "q", "r", "s", "t", "u", "v", "w", "x", "y", "z", "A", "B", "C", "D", "E", "F", "G", "H", "I", "J", "K", "L", "M", "N", "O", "P", "Q", "R", "S", "T", "U", "V", "W", "X", "Y", "Z", "0", "1", "2", "3", "4", "5", "6", "7", "8", "9", "_"}

\* sep.join(parts)
RECURSIVE Join(_, _)
Join(sep, parts) ==
    IF parts = << >> THEN << >>
    ELSE IF Len(parts) = 1 THEN parts[1]
    ELSE parts[1] \o sep \o Join(sep, Tail(parts))

\* "a.b.c" written from its segments.
Dotted(parts) == Join(s_dot, parts)

(***************************************************************************)
(* Python values                                                           *)
(***************************************************************************)
EmptyDict == << >>

PyNone == [ty |-> "NoneType", b |-> FALSE, n |-> 0, s |-> << >>, d |-> << >>]

PyBool(b) == [ty |-> "bool", b |-> b, n |-> 0, s |-> << >>, d |-> << >>]

PyInt(n) == [ty |-> "int", b |-> FALSE, n |-> n, s |-> << >>, d |-> << >>]

PyStr(s) == [ty |-> "str", b |-> FALSE, n |-> 0, s |-> s, d |-> << >>]

PyDict(d) == [ty |-> "dict", b |-> FALSE, n |-> 0, s |-> << >>, d |-> d]

\* isinstance(value, expect_type); bool is a subclass of int, and every
\* value is an instance of object.
isinstance(value, expect_type) ==
    CASE expect_type = "object" -> TRUE
      [] expect_type = "int" -> value.ty \in {"int", "bool"}
      [] OTHER -> value.ty = expect_type

\* mapping[key] = value
DictSet(mapping, key, value) ==
    [k \in (DOMAIN mapping) \cup {key} |-> IF k = key THEN value ELSE mapping[k]]

\* dict(entries)[key] = value on an insertion-ordered dict: a key already
\* present keeps its place and takes the new value.
OrderedSet(entries, key, value) ==
    IF \E i \in DOMAIN entries : entries[i].k = key
    THEN [i \in DOMAIN entries |->
             IF entries[i].k = key THEN [k |-> key, v |-> value] ELSE entries[i]]
    ELSE Append(entries, [k |-> key, v |-> value])

\* How an operation ends: it returns a value, or raises an exception.
Return(value) == [kind |-> "return", value |-> value]

Raise(exception) == [kind |-> exception, value |-> PyNone]

(***************************************************************************)
(* parse_key and get_setting                                               *)
(***************************************************************************)
\* key.split("."): always at least one segment; "" splits to [""].
RECURSIVE parse_key(_)
parse_key(key) ==
    IF \A i \in DOMAIN key : key[i] # "."
    THEN <<key>>
    ELSE LET i == CHOOSE j \in DOMAIN key :
                      key[j] = "." /\ \A m \in 1..(j - 1) : key[m] # "."
         IN  <<SubSeq(key, 1, i - 1)>> \o parse_key(SubSeq(key, i + 1, Len(key)))

\* toad._loop.loop_last: the flag it yields with the i-th of the values.
loop_last(values, i) == i = Len(values)

\* NotAMapping with the failure reported as a missing key.
NotAMapping_as_missing(optimized) == Raise("KeyError")

\* What follows a non-dict intermediate value: the assert of line 85 fails,
\* or, when the interpreter runs with asserts stripped (python -O), the next
\* iteration subscripts the non-dict value with a str.
NotAMapping(optimized) ==
    IF optimized THEN Raise("TypeError") ELSE Raise("AssertionError")

\* get_setting_from with `settings.get(key_component)` at the last
\* component, so that an absent key is reported like a wrongly typed value.
RECURSIVE get_setting_from_conflated(_, _, _, _, _)
get_setting_from_conflated(mapping, components, i, expect_type, optimized) ==
    LET key_component == components[i]
    IN  IF loop_last(components, i)
        THEN IF key_component \notin DOMAIN mapping
             THEN Raise("InvalidValue")
             ELSE LET found == mapping[key_component]
                  IN  IF ~isinstance(found, expect_type)
                      THEN Raise("InvalidValue")
                      ELSE Return(found)
        ELSE IF key_component \notin DOMAIN mapping
             THEN Raise("KeyError")
             ELSE LET sub_settings == mapping[key_component]
                  IN  IF sub_settings.ty # "dict"
                      THEN NotAMapping(optimized)
                      ELSE get_setting_from_conflated(sub_settings.d, components,
                                                      i + 1, expect_type, optimized)

\* The loop of get_setting from the i-th key component on.
RECURSIVE get_setting_from(_, _, _, _, _)
get_setting_from(mapping, components, i, expect_type, optimized) ==
    LET key_component == components[i]
    IN  IF loop_last(components, i)
        THEN IF key_component \notin DOMAIN mapping
             THEN Raise("KeyError")
             ELSE LET found == mapping[key_component]
                  IN  IF ~isinstance(found, expect_type)
                      THEN Raise("InvalidValue")
                      ELSE Return(found)
        ELSE IF key_component \notin DOMAIN mapping
             THEN Raise("KeyError")
             ELSE LET sub_settings == mapping[key_component]
                  IN  IF sub_settings.ty # "dict"
                      THEN NotAMapping(optimized)
                      ELSE get_setting_from(sub_settings.d, components, i + 1,
                                            expect_type, optimized)

get_setting(mapping, key, expect_type, optimized) ==
    get_setting_from(mapping, parse_key(key), 1, expect_type, optimized)

(***************************************************************************)
(* os.path.expandvars (posixpath) and Settings.get                         *)
(***************************************************************************)
\* Whether \$(\w+|\{[^}]*\}) matches at position p of path.
MatchAt(path, p) ==
    /\ path[p] = "$"
    /\ p < Len(path)
    /\ \/ path[p + 1] \in WordChars
       \/ /\ path[p + 1] = "{"
          /\ \E q \in (p + 2)..Len(path) : path[q] = "}"

\* The position after the match at p: \w+ is greedy, [^}]* stops at the
\* first closing brace.
MatchEnd(path, p) ==
    IF path[p + 1] \in WordChars
    THEN 1 + CHOOSE e \in (p + 1)..Len(path) :
                 /\ \A m \in (p + 1)..e : path[m] \in WordChars
                 /\ (e = Len(path) \/ path[e + 1] \notin WordChars)
    ELSE 1 + CHOOSE q \in (p + 2)..Len(path) :
                 /\ path[q] = "}"
                 /\ \A m \in (p + 2)..(q - 1) : path[m] # "}"

\* group(1) of the match at p, with its braces removed.
MatchName(path, p) ==
    IF path[p + 1] \in WordChars
    THEN SubSeq(path, p + 1, MatchEnd(path, p) - 1)
    ELSE SubSeq(path, p + 2, MatchEnd(path, p) - 2)

\* The while loop of expandvars, searching from position i: a name that is
\* set is replaced by its value and the search goes on after the value; a
\* name that is not set is left as written.
RECURSIVE expandvars_from(_, _, _)
expandvars_from(path, i, env) ==
    IF ~\E p \in i..Len(path) : MatchAt(path, p)
    THEN path
    ELSE LET p == CHOOSE q \in i..Len(path) :
                      MatchAt(path, q) /\ \A m \in i..(q - 1) : ~MatchAt(path, m)
             j == MatchEnd(path, p)
             name == MatchName(path, p)
         IN  IF name \in DOMAIN env
             THEN LET head == SubSeq(path, 1, p - 1) \o env[name]
                      tail == SubSeq(path, j, Len(path))
                  IN  expandvars_from(head \o tail, Len(head) + 1, env)
             ELSE expandvars_from(path, j, env)

expandvars(path, env) ==
    IF \A i \in DOMAIN path : path[i] # "$" THEN path
    ELSE expandvars_from(path, 1, env)

\* Settings.get without the expansion.
Settings_get_unexpanded(mapping, key, expect_type, env, optimized) ==
    get_setting(mapping, key, expect_type, optimized)

\* Settings.get: the value get_setting finds, expanded when it is a str.
\* Nothing is assigned to self._settings.
Settings_get(mapping, key, expect_type, env, optimized) ==
    LET setting == get_setting(mapping, key, expect_type, optimized)
    IN  IF setting.kind = "return" /\ isinstance(setting.value, "str")
        THEN Return(PyStr(expandvars(setting.value.s, env)))
        ELSE setting

(***************************************************************************)
(* Schema Definition                                                       *)
(***************************************************************************)
\* A descriptor of a leaf setting; default is PyNone when none is declared.
Leaf(key, type, default) ==
    [key |-> key, type |-> type, default |-> default,
     hasFields |-> FALSE, fields |-> << >>]

\* An object descriptor with a "fields" list.
Object(key, fields) ==
    [key |-> key, type |-> "object", default |-> PyNone,
     hasFields |-> TRUE, fields |-> fields]

\* An object descriptor without a "fields" entry.
BareObject(key) ==
    [key |-> key, type |-> "object", default |-> PyNone,
     hasFields |-> FALSE, fields |-> << >>]

\* An object descriptor that declares a container-level default.
ObjectWithDefault(key, default, fields) ==
    [key |-> key, type |-> "object", default |-> default,
     hasFields |-> TRUE, fields |-> fields]

\* toad.settings_schema.SCHEMA
SCHEMA ==
    << Object(s_ui,
           << Leaf(s_column, "boolean", PyBool(TRUE)),
              Leaf(s_column_width, "integer", PyInt(100)),
              Leaf(s_theme, "choices", PyStr(s_dracula)) >>),
       Object(s_user,
           << Leaf(s_name, "string", PyStr(s_dollar_USER)),
              Leaf(s_email, "string", PyStr(s_empty)) >>),
       Object(s_accounts,
           << Object(s_anthropic,
                  << Leaf(s_apikey, "string", PyStr(s_dollar_ANTHROPIC)) >>),
              Object(s_openai,
                  << Leaf(s_apikey, "string", PyStr(s_dollar_OPENAI)) >>) >>) >>

(***************************************************************************)
(* Schema.set_value                                                        *)
(***************************************************************************)
\* The class of every item of Schema.schema (a list[SchemaDict]).
ItemClass == "dict"

\* `key in schema` for schema = self.schema, a list: list.__contains__ tests
\* key == item for each item, and a str equals only an equal str.
key_in_schema(key, schema_list) ==
    \E i \in DOMAIN schema_list : ItemClass = "str" /\ schema_list[i] = key

\* Schema.set_value: the first pass through the loop body.  On the last
\* (here: only) key the value is assigned before the schema is consulted.
\* Then either line 101 raises InvalidKey, or line 102 subscripts the list
\* with a str and raises TypeError: no pass reaches lines 103-105, and no
\* second pass is made.  The result is how the call ends and the values
\* tree it leaves behind.
set_value(schema_list, mapping, key, value) ==
    LET keys == parse_key(key)
        key1 == keys[1]
        assigned == IF loop_last(keys, 1) THEN DictSet(mapping, key1, value)
                    ELSE mapping
    IN  IF ~key_in_schema(key1, schema_list)
        THEN [outcome |-> Raise("InvalidKey"), settings |-> assigned]
        ELSE [outcome |-> Raise("TypeError"), settings |-> assigned]

(***************************************************************************)
(* Schema.defaults                                                         *)
(***************************************************************************)
\* `if fields := sub_schema.get("fields")`: present and not empty.
fields_truthy(sub_schema) ==
    sub_schema.hasFields /\ sub_schema.fields # << >>

\* declares_default as `if default := sub_schema.get("default")`: a falsy
\* default counts as none.
declares_default_truthy(sub_schema) ==
    /\ sub_schema.default.ty # "NoneType"
    /\ sub_schema.default # PyBool(FALSE)
    /\ sub_schema.default # PyInt(0)
    /\ sub_schema.default # PyStr(s_empty)

\* `(default := sub_schema.get("default")) is not None`
declares_default(sub_schema) ==
    sub_schema.default.ty # "NoneType"

\* set_defaults(schema, settings): the mapping after the loop over schema.
RECURSIVE set_defaults(_, _)
set_defaults(schema_list, mapping) ==
    IF schema_list = << >> THEN mapping
    ELSE LET sub_schema == Head(schema_list)
             key == sub_schema.key
             after ==
                 IF sub_schema.type = "object"
                 THEN IF fields_truthy(sub_schema)
                      THEN DictSet(mapping, key,
                               PyDict(set_defaults(sub_schema.fields, EmptyDict)))
                      ELSE mapping
                 ELSE IF declares_default(sub_schema)
                      THEN DictSet(mapping, key, sub_schema.default)
                      ELSE mapping
         IN  set_defaults(Tail(schema_list), after)

\* Schema.defaults(): starts from a new empty dict on every call.
defaults(schema_list) == set_defaults(schema_list, EmptyDict)

(***************************************************************************)
(* Schema.settings_map and Schema.keys                                     *)
(***************************************************************************)
\* schema.get("fields", [])
fields_or_empty(sub_schema) ==
    IF sub_schema.hasFields THEN sub_schema.fields ELSE << >>

\* qualified without the parent's prefix.
qualified_local(name, key) == key

\* f"{name}.{schema['key']}"
qualified(name, key) == name \o s_dot \o key

RECURSIVE build_settings(_, _)
RECURSIVE build_children(_, _, _)
\* The dict comprehension of lines 160-163 over fields, added to children.
build_children(name, fields, children) ==
    IF fields = << >> THEN children
    ELSE LET sub_schema == Head(fields)
         IN  build_children(name, Tail(fields),
                 OrderedSet(children, sub_schema.key,
                     build_settings(qualified(name, sub_schema.key), sub_schema)))

\* build_settings(name, schema): a Setting.  hasChildren tells a children
\* dict (possibly empty) from children = None.
build_settings(name, sub_schema) ==
    IF sub_schema.type = "object"
    THEN [key |-> name, type |-> sub_schema.type, default |-> sub_schema.default,
          hasChildren |-> TRUE,
          children |-> build_children(name, fields_or_empty(sub_schema), << >>)]
    ELSE [key |-> name, type |-> sub_schema.type, default |-> sub_schema.default,
          hasChildren |-> FALSE, children |-> << >>]

\* The loop of lines 175-178 over self.schema, added to form_settings.
RECURSIVE form_settings(_, _)
form_settings(schema_list, formed) ==
    IF schema_list = << >> THEN formed
    ELSE LET sub_schema == Head(schema_list)
         IN  form_settings(Tail(schema_list),
                 OrderedSet(formed, sub_schema.key,
                     build_settings(sub_schema.key, sub_schema)))

\* The body of Schema.settings_map.
settings_map(schema_list) == form_settings(schema_list, << >>)

\* `setting.type == "object" and setting.children`
has_children(setting) ==
    setting.type = "object" /\ setting.hasChildren /\ setting.children # << >>

RECURSIVE get_keys(_)
RECURSIVE get_keys_of(_)
\* The keys get_keys yields for each of the settings, in order.
get_keys_of(entries) ==
    IF entries = << >> THEN << >>
    ELSE get_keys(Head(entries).v) \o get_keys_of(Tail(entries))

\* get_keys(setting)
get_keys(setting) ==
    IF has_children(setting) THEN get_keys_of(setting.children)
    ELSE <<setting.key>>

\* The body of Schema.keys, given self.settings_map.
keys(compiled) == get_keys_of(compiled)

(***************************************************************************)
(* Inputs                                                                  *)
(***************************************************************************)
\* The schema of the specification's concrete scenario.
ScenarioSchema ==
    << Object(s_ui,
           << Leaf(s_column, "boolean", PyBool(TRUE)),
              Leaf(s_column_width, "integer", PyInt(100)) >>) >>

\* A group whose only child is an empty group, and a group with no
\* "fields" entry.
GroupsOnlySchema ==
    << Object(s_g, << Object(s_h, << >>) >>), BareObject(s_x) >>

\* Leaves without a default, leaves with falsy defaults, a top-level leaf.
SparseSchema ==
    << Object(s_g,
           << Leaf(s_x, "string", PyNone),
              Leaf(s_y, "boolean", PyBool(FALSE)) >>),
       Leaf(s_y, "integer", PyInt(0)) >>

\* A group declaring a container-level default, and a group whose only
\* leaf declares none.
ContainerDefaultSchema ==
    << ObjectWithDefault(s_g, PyInt(1),
           << Leaf(s_x, "string", PyStr(s_dollar_USER)) >>),
       Object(s_h, << Leaf(s_x, "string", PyNone) >>) >>

\* Three levels.
DeepSchema ==
    << Object(s_g,
           << Object(s_h,
                  << Leaf(s_x, "integer", PyInt(7)),
                     Leaf(s_y, "string", PyStr(s_empty)) >>) >>) >>

Schemas ==
    {SCHEMA, ScenarioSchema, GroupsOnlySchema, SparseSchema,
     ContainerDefaultSchema, DeepSchema}

\* dict literals
Dict1(k1, v1) == [k \in {k1} |-> v1]

Dict2(k1, v1, k2, v2) == [k \in {k1, k2} |-> IF k = k1 THEN v1 ELSE v2]

\* Values trees handed to Settings(schema, settings) from outside.
ExternalTrees ==
    { EmptyDict,
      Dict1(s_user, PyDict(Dict1(s_name, PyStr(s_dollar_USER)))),
      Dict1(s_g, PyInt(5)),
      Dict1(s_g, PyDict(Dict2(s_x, PyStr(s_brace_USER), s_h, PyBool(TRUE)))),
      Dict2(s_ui, PyDict(Dict1(s_column_width, PyStr(s_wide))),
            s_y, PyStr(s_dollar_USERS)) }

\* The elements of a sequence.
Range(seq) == {seq[i] : i \in DOMAIN seq}

\* Dotted keys asked for besides the schema's own.
ProbeKeys ==
    { s_empty, s_g, Dotted(<<s_g, s_x>>), Dotted(<<s_g, s_h, s_x>>),
      Dotted(<<s_user, s_name>>), Dotted(<<s_ui, s_column_width>>) }

GetKeys == Range(keys(settings_map(schema))) \cup ProbeKeys

SetKeys ==
    Range(keys(settings_map(schema))) \cup {s_g, s_nosuch, Dotted(<<s_g, s_x>>)}

SetValues == {PyInt(7)}

ExpectTypes == {"object", "int", "str"}

EnvNames == {s_USER}

EnvValues == {s_alice, s_bob}

\* set_value calls followed on one values tree.
MaxWrites == 2

(***************************************************************************)
(* State machine                                                           *)
(***************************************************************************)
Unset == [set |-> FALSE, id |-> 0, val |-> << >>]

NoResult ==
    [op |-> "none", key |-> << >>, expect |-> "object", arg |-> PyNone,
     kind |-> "return", value |-> PyNone, before |-> EmptyDict,
     after |-> EmptyDict, beforeSource |-> "external", beforeWrites |-> 0,
     env |-> EmptyDict, id |-> 0, cached |-> FALSE]

Init ==
    /\ schema \in Schemas
    /\ cache = [settings_map |-> Unset, keys |-> Unset]
    /\ runs = [settings_map |-> 0, keys |-> 0]
    /\ nextId = 1
    /\ first = [settings_map |-> 0, keys |-> 0]
    /\ settings = EmptyDict
    /\ source = "external"
    /\ writes = 0
    /\ environ = EmptyDict
    /\ result = NoResult

\* No operation's outcome is waiting to be looked at by its caller.
Idle == result.op = "none"

\* cache_hit of a plain @property: the body runs on every access.
cache_hit_never(slots, name) == FALSE

\* functools.cached_property.__get__: whether the instance __dict__ already
\* holds the property's value.
cache_hit(slots, name) == slots[name].set

\* self.settings_map: the cached object, or a new one made by the body.
\* ran tells whether the body ran.
read_settings_map(slots, id) ==
    IF cache_hit(slots, "settings_map")
    THEN [obj |-> slots.settings_map, ran |-> 0]
    ELSE [obj |-> [set |-> TRUE, id |-> id, val |-> settings_map(schema)],
          ran |-> 1]

\* An access of schema.settings_map.
AccessSettingsMap ==
    LET got == read_settings_map(cache, nextId)
    IN  /\ Idle
        /\ cache' = [cache EXCEPT !.settings_map = got.obj]
        /\ runs' = [runs EXCEPT !.settings_map = @ + got.ran]
        /\ nextId' = nextId + got.ran
        /\ first' = IF first.settings_map = 0
                    THEN [first EXCEPT !.settings_map = got.obj.id]
                    ELSE first
        /\ result' = [NoResult EXCEPT !.op = "settings_map", !.id = got.obj.id,
                                      !.cached = (got.ran = 0)]
        /\ UNCHANGED <<schema, settings, source, writes, environ>>

\* An access of schema.keys; on a miss its body reads self.settings_map.
AccessKeys ==
    LET hit == cache_hit(cache, "keys")
        got == read_settings_map(cache, nextId)
        made == [set |-> TRUE, id |-> nextId + got.ran, val |-> keys(got.obj.val)]
        obj == IF hit THEN cache.keys ELSE made
    IN  /\ Idle
        /\ cache' = IF hit THEN cache
                    ELSE [settings_map |-> got.obj, keys |-> made]
        /\ runs' = IF hit THEN runs
                   ELSE [settings_map |-> runs.settings_map + got.ran,
                         keys |-> runs.keys + 1]
        /\ nextId' = IF hit THEN nextId ELSE nextId + got.ran + 1
        /\ first' = [settings_map |->
                         IF ~hit /\ first.settings_map = 0 THEN got.obj.id
                         ELSE first.settings_map,
                     keys |-> IF first.keys = 0 THEN obj.id ELSE first.keys]
        /\ result' = [NoResult EXCEPT !.op = "keys", !.id = obj.id, !.cached = hit]
        /\ UNCHANGED <<schema, settings, source, writes, environ>>

\* schema.defaults(): the tree it returns becomes the values tree at hand.
Defaults ==
    /\ Idle
    /\ settings' = defaults(schema)
    /\ source' = "defaults"
    /\ writes' = 0
    /\ result' = [NoResult EXCEPT !.op = "defaults",
                                  !.value = PyDict(settings'),
                                  !.before = settings, !.after = settings',
                                  !.beforeSource = source,
                                  !.beforeWrites = writes]
    /\ UNCHANGED <<schema, cache, runs, nextId, first, environ>>

\* Settings(schema, tree) for a tree made elsewhere.
Load(tree) ==
    /\ Idle
    /\ settings' = tree
    /\ source' = "external"
    /\ writes' = 0
    /\ result' = [NoResult EXCEPT !.op = "load", !.before = settings,
                                  !.after = tree]
    /\ UNCHANGED <<schema, cache, runs, nextId, first, environ>>

\* schema.set_value(settings, key, value)
SetValue(key, value) ==
    /\ Idle
    /\ writes < MaxWrites
    /\ LET done == set_value(schema, settings, key, value)
       IN  /\ settings' = done.settings
           /\ result' = [NoResult EXCEPT !.op = "set_value", !.key = key,
                                         !.arg = value,
                                         !.kind = done.outcome.kind,
                                         !.before = settings,
                                         !.after = done.settings]
    /\ writes' = writes + 1
    /\ UNCHANGED <<schema, cache, runs, nextId, first, source, environ>>

\* get_setting(settings, key, expect_type)
GetSetting(key, expect_type, optimized) ==
    /\ Idle
    /\ LET got == get_setting(settings, key, expect_type, optimized)
       IN  result' = [NoResult EXCEPT !.op = "get_setting", !.key = key,
                                      !.expect = expect_type,
                                      !.kind = got.kind, !.value = got.value,
                                      !.before = settings, !.after = settings]
    /\ UNCHANGED <<schema, cache, runs, nextId, first, settings, source, writes,
                   environ>>

\* Settings(schema, settings).get(key, expect_type)
SettingsGet(key, expect_type, optimized) ==
    /\ Idle
    /\ LET got == Settings_get(settings, key, expect_type, environ, optimized)
       IN  result' = [NoResult EXCEPT !.op = "Settings.get", !.key = key,
                                      !.expect = expect_type,
                                      !.kind = got.kind, !.value = got.value,
                                      !.before = settings, !.after = settings,
                                      !.env = environ]
    /\ UNCHANGED <<schema, cache, runs, nextId, first, settings, source, writes,
                   environ>>

\* The process environment changes between two calls.
SetEnv(name, value) ==
    /\ Idle
    /\ ~(name \in DOMAIN environ /\ environ[name] = value)
    /\ environ' = DictSet(environ, name, value)
    /\ UNCHANGED <<schema, cache, runs, nextId, first, settings, source, writes,
                   result>>

UnsetEnv(name) ==
    /\ Idle
    /\ name \in DOMAIN environ
    /\ environ' = [n \in (DOMAIN environ) \ {name} |-> environ[n]]
    /\ UNCHANGED <<schema, cache, runs, nextId, first, settings, source, writes,
                   result>>

\* The caller has looked at the outcome and goes on.
Resume ==
    /\ ~Idle
    /\ result' = NoResult
    /\ UNCHANGED <<schema, cache, runs, nextId, first, settings, source, writes,
                   environ>>

Next ==
    \/ AccessSettingsMap
    \/ AccessKeys
    \/ Defaults
    \/ \E tree \in ExternalTrees : Load(tree)
    \/ \E key \in SetKeys, value \in SetValues : SetValue(key, value)
    \/ \E key \in GetKeys, expect_type \in ExpectTypes, optimized \in BOOLEAN :
           GetSetting(key, expect_type, optimized)
    \/ \E key \in GetKeys, expect_type \in ExpectTypes, optimized \in BOOLEAN :
           SettingsGet(key, expect_type, optimized)
    \/ \E name \in EnvNames, value \in EnvValues : SetEnv(name, value)
    \/ \E name \in EnvNames : UnsetEnv(name)
    \/ Resume

Spec == Init /\ [][Next]_vars

(***************************************************************************)
(* Vocabulary of the properties: the Schema Definition and a values tree   *)
(* read directly, without the engine.                                      *)
(***************************************************************************)
\* The descriptors of a Schema Definition in depth-first declaration order,
\* each with the local keys on the path from its root descriptor.
RECURSIVE Nodes(_, _)
Nodes(schema_list, prefix) ==
    IF schema_list = << >> THEN << >>
    ELSE LET desc == Head(schema_list)
             path == Append(prefix, desc.key)
         IN  <<[path |-> path, desc |-> desc]>>
             \o (IF desc.type = "object" THEN Nodes(desc.fields, path) ELSE << >>)
             \o Nodes(Tail(schema_list), prefix)

SchemaNodes == Nodes(schema, << >>)

IsLeafNode(node) == node.desc.type # "object"

LeafNodes == SelectSeq(SchemaNodes, IsLeafNode)

IsPrefix(p, q) == Len(p) <= Len(q) /\ SubSeq(q, 1, Len(p)) = p

\* Sibling descriptors have pairwise distinct local keys, and no local key
\* contains a ".".
WellKeyed ==
    /\ \A i, j \in DOMAIN SchemaNodes :
           i # j => SchemaNodes[i].path # SchemaNodes[j].path
    /\ \A i \in DOMAIN SchemaNodes :
           \A c \in DOMAIN SchemaNodes[i].desc.key :
               SchemaNodes[i].desc.key[c] # "."

\* Stands for "nothing there" when a values tree is read along a path.
Absent == [ty |-> "absent", b |-> FALSE, n |-> 0, s |-> << >>, d |-> << >>]

\* What a value holds at a path of keys below it.
RECURSIVE Sub(_, _)
Sub(value, path) ==
    IF path = << >> THEN value
    ELSE IF value.ty # "dict" THEN Absent
    ELSE IF Head(path) \notin DOMAIN value.d THEN Absent
    ELSE Sub(value.d[Head(path)], Tail(path))

\* What a values tree holds at the first i segments of a path.
At(tree, path, i) == Sub(PyDict(tree), SubSeq(path, 1, i))

\* The Setting a compiled settings_map holds at a path of local keys.
RECURSIVE CompiledAt(_, _)
CompiledAt(entries, path) ==
    LET i == CHOOSE j \in DOMAIN entries : entries[j].k = Head(path)
    IN  IF Len(path) = 1 THEN entries[i].v
        ELSE CompiledAt(entries[i].v.children, Tail(path))

RECURSIVE HasCompiled(_, _)
HasCompiled(entries, path) ==
    /\ \E j \in DOMAIN entries : entries[j].k = Head(path)
    /\ \/ Len(path) = 1
       \/ LET i == CHOOSE j \in DOMAIN entries : entries[j].k = Head(path)
          IN  HasCompiled(entries[i].v.children, Tail(path))

\* Every Setting of a compiled settings_map, depth first.
RECURSIVE AllSettings(_)
AllSettings(entries) ==
    IF entries = << >> THEN << >>
    ELSE <<Head(entries).v>> \o AllSettings(Head(entries).v.children)
         \o AllSettings(Tail(entries))

KeysOf(entries) == [i \in DOMAIN entries |-> entries[i].k]

LocalKeys(descriptors) == [i \in DOMAIN descriptors |-> descriptors[i].key]

(***************************************************************************)
(* Properties                                                              *)
(***************************************************************************)
\* C1: for a key k of Schema.keys, set_value(t, k, v) completes without
\* error and a following get_setting(t, k, object) returns v.
C1_SetThenGet ==
    (result.op = "set_value" /\ result.key \in Range(keys(settings_map(schema))))
        => /\ result.kind = "return"
           /\ get_setting(result.after, result.key, "object", FALSE)
                  = Return(result.arg)

\* C2: for a key with a path segment absent from the schema, set_value
\* raises InvalidKey and leaves the values tree as it was.
C2_InvalidKeyLeavesTree ==
    (/\ result.op = "set_value"
     /\ \A i \in DOMAIN SchemaNodes : SchemaNodes[i].path # parse_key(result.key))
        => /\ result.kind = "InvalidKey"
           /\ result.after = result.before

\* C3: every defaults() result, also one made after an earlier result was
\* modified, holds each leaf's declared non-None default d at the leaf's
\* dotted key: get_setting with a type T of d returns exactly d.  For the
\* shipped schema it holds ui.column = True and ui.column-width = 100.
C3_DefaultsRoundTrip ==
    result.op = "defaults" =>
        /\ \A i \in DOMAIN LeafNodes :
               LET leaf == LeafNodes[i]
               IN  leaf.desc.default.ty # "NoneType" =>
                       \A T \in {"object", "bool", "int", "str"}, optimized \in BOOLEAN :
                           isinstance(leaf.desc.default, T) =>
                               get_setting(result.value.d, Dotted(leaf.path), T, optimized)
                                   = Return(leaf.desc.default)
        /\ schema = SCHEMA =>
               /\ At(result.value.d, <<s_ui, s_column>>, 2) = PyBool(TRUE)
               /\ At(result.value.d, <<s_ui, s_column_width>>, 2) = PyInt(100)

\* A defaults() call made after the tree an earlier call returned was
\* modified, for the shipped schema.
C3_Witness ==
    /\ result.op = "defaults"
    /\ result.beforeSource = "defaults"
    /\ result.beforeWrites > 0
    /\ result.before # result.after
    /\ schema = SCHEMA

\* C4: in defaults() the key of an object descriptor appears only if a
\* descendant leaf of the object declares a non-None default.
C4_NoEmptyGroups ==
    result.op = "defaults" =>
        \A i \in DOMAIN SchemaNodes :
            LET node == SchemaNodes[i]
            IN  (~IsLeafNode(node) /\ At(result.after, node.path, Len(node.path)) # Absent)
                    => \E j \in DOMAIN LeafNodes :
                           /\ IsPrefix(node.path, LeafNodes[j].path)
                           /\ LeafNodes[j].desc.default.ty # "NoneType"

\* C5: get_setting(schema.defaults(), k, object) for k in Schema.keys
\* returns a value or raises KeyError, nothing else.
C5_DefaultsLookupOutcomes ==
    (/\ result.op = "get_setting"
     /\ result.expect = "object"
     /\ result.key \in Range(keys(settings_map(schema)))
     /\ result.before = defaults(schema))
        => result.kind \in {"return", "KeyError"}

\* A key of Schema.keys that the sparse defaults tree does not hold.
C5_Witness ==
    /\ result.op = "get_setting"
    /\ result.before = defaults(schema)
    /\ result.key \in Range(keys(settings_map(schema)))
    /\ result.expect = "object"
    /\ result.kind = "KeyError"
    /\ result.before # EmptyDict

\* C6: get_setting ends in exactly one of four ways, decided along the
\* path: KeyError when a segment is absent from the mapping reached; a
\* type-mismatch failure when an intermediate segment holds a value that is
\* not a mapping; InvalidValue when the terminal value is present and not an
\* instance of the expected type; otherwise it returns the terminal value.
\* The values tree is unchanged in every case.
C6_GetSettingOutcomes ==
    result.op = "get_setting" =>
        LET path == parse_key(result.key)
            n == Len(path)
            held(i) == At(result.before, path, i)
            missing == \E i \in 1..n :
                           held(i) = Absent /\ held(i - 1).ty = "dict"
            blocked == \E i \in 1..(n - 1) :
                           held(i) # Absent /\ held(i).ty # "dict"
            present == held(n) # Absent
        IN  /\ result.kind \in {"KeyError", "AssertionError", "TypeError",
                                "InvalidValue", "return"}
            /\ result.kind = "KeyError" <=> missing
            /\ result.kind \in {"AssertionError", "TypeError"} <=> blocked
            /\ result.kind = "InvalidValue"
                   <=> (present /\ ~isinstance(held(n), result.expect))
            /\ result.kind = "return"
                   <=> (present /\ isinstance(held(n), result.expect))
            /\ result.kind = "return" => result.value = held(n)
            /\ result.after = result.before

\* The second intermediate segment holds a value that is not a mapping.
C6_Witness ==
    /\ result.op = "get_setting"
    /\ result.kind = "AssertionError"
    /\ Len(parse_key(result.key)) = 3
    /\ At(result.before, parse_key(result.key), 1).ty = "dict"

\* C7: the body of settings_map runs at most once and every access returns
\* the object the first access returned; the same holds for keys, which is
\* computed from the cached settings_map.
C7_CompiledOnce ==
    /\ runs.settings_map <= 1
    /\ runs.keys <= 1
    /\ result.op = "settings_map" =>
           /\ result.id = first.settings_map
           /\ cache.settings_map.set /\ cache.settings_map.id = result.id
    /\ result.op = "keys" =>
           /\ result.id = first.keys
           /\ cache.keys.set /\ cache.keys.id = result.id
    /\ cache.keys.set => cache.settings_map.set
    /\ result.op = "keys" => cache.keys.val = keys(cache.settings_map.val)

\* keys is served from the cache after set_value calls on a defaults tree.
C7_Witness ==
    /\ result.op = "keys"
    /\ result.cached
    /\ runs.settings_map = 1
    /\ source = "defaults"
    /\ writes > 0

\* C8: Settings.get(key, str) of a stored "$USER" returns the value USER
\* has in the environment at the time of the call, returns "$USER" as
\* written when USER is not set, and leaves "$USER" stored.
C8_ExpandsAtReadTime ==
    (/\ result.op = "Settings.get"
     /\ result.expect = "str"
     /\ At(result.before, parse_key(result.key), Len(parse_key(result.key)))
            = PyStr(s_dollar_USER))
        => /\ result.kind = "return"
           /\ result.value = IF s_USER \in DOMAIN result.env
                             THEN PyStr(result.env[s_USER])
                             ELSE PyStr(s_dollar_USER)
           /\ result.after = result.before

\* A get made after the environment changed: USER, not set at first, is bob.
C8_Witness ==
    /\ result.op = "Settings.get"
    /\ result.expect = "str"
    /\ result.key = Dotted(<<s_user, s_name>>)
    /\ At(result.before, <<s_user, s_name>>, 2) = PyStr(s_dollar_USER)
    /\ result.value = PyStr(s_bob)

\* C9: Schema.keys is the sequence of the dotted keys of the leaf settings
\* in depth-first declaration order; no object's key is in it.
C9_KeysAreLeafKeys ==
    result.op = "keys" =>
        cache.keys.val = [i \in DOMAIN LeafNodes |-> Dotted(LeafNodes[i].path)]

\* C10: in the compiled settings_map of a schema whose sibling keys are
\* distinct and dot-free, every Setting's key is the "."-join of the local
\* keys on its path, every node is stored under its local key in
\* declaration order, and no two Settings have the same key.
C10_QualifiedKeys ==
    (result.op = "settings_map" /\ WellKeyed) =>
        LET compiled == cache.settings_map.val
            all == AllSettings(compiled)
        IN  /\ KeysOf(compiled) = LocalKeys(schema)
            /\ \A i \in DOMAIN SchemaNodes :
                   LET node == SchemaNodes[i]
                   IN  /\ HasCompiled(compiled, node.path)
                       /\ CompiledAt(compiled, node.path).key = Dotted(node.path)
                       /\ CompiledAt(compiled, node.path).type = node.desc.type
                       /\ KeysOf(CompiledAt(compiled, node.path).children)
                              = LocalKeys(node.desc.fields)
            /\ Len(all) = Len(SchemaNodes)
            /\ \A i, j \in DOMAIN all : i # j => all[i].key # all[j].key

\* The three-level schema has been compiled.
C10_Witness ==
    /\ result.op = "settings_map"
    /\ schema = DeepSchema
    /\ cache.settings_map.set
    /\ WellKeyed

====
